---- MODULE Spec2Model ----
(***************************************************************************)
(* Model of the NVMCTRL driver of hal/src/thumbv7em/nvm.rs: the guards,    *)
(* the page-buffered write, the erase loop, the boot-protection toggle and *)
(* the error decoder, together with the NVMCTRL registers they drive.      *)
(*                                                                         *)
(* A u32 value v is the pair <<v \div 2^16, v % 2^16>>, so that the whole  *)
(* 32-bit range is available and `+` and `*` wrap modulo 2^32 as they do   *)
(* in a build without overflow checks.                                     *)
(***************************************************************************)
EXTENDS Integers, Sequences, FiniteSets, TLC

VARIABLES
    bootprot,         \* STATUS.BOOTPROT, 0..15, read-only, loaded at reset
    bpdis,            \* STATUS.BPDIS
    ready,            \* STATUS.READY
    intflag,          \* INTFLAG: the flags currently set, among DONE, ADDRE, LOCKE, PROGE
    pending,          \* the command NVMCTRL is executing, or "none"
    pc,               \* position of the driver inside the current call
    call,             \* the current (or last) call and its arguments
    write_addresses,  \* write(): iterator over the destination range
    read_addresses,   \* write(): iterator over the source range
    range_to_erase,   \* erase(): iterator over the range to erase
    dirty,            \* write(): unwritten data in the page buffer
    read_intflag,     \* manage_error_states(): the value it last read from INTFLAG
    result,           \* what the last call returned, "none" while running
    trace,            \* the register and page-buffer accesses of the current call
    page_intflag,     \* write(): INTFLAG as read when the last WP of the loop completed
    param_nvmp,       \* PARAM.NVMP, the number of pages
    param_psz,        \* PARAM.PSZ, the page size in bytes
    FLASHSIZE,        \* retrieve_flash_size(): its static Option<NonZeroU32>, 0 for None
    size_last,        \* the last call of retrieve_flash_size or retrieve_bank_size
    size_returned,    \* the values retrieve_flash_size has returned so far
    size_reads,       \* how many times PARAM has been read
    size_calls,       \* how many calls of the two functions were made
    nvm_bytes,        \* the bytes of the user page and of the two calibration areas
    region_last       \* the last call of a reader of these regions and its value

sizevars == <<param_nvmp, param_psz, FLASHSIZE, size_last, size_returned,
              size_reads, size_calls>>

regionvars == <<nvm_bytes, region_last>>

\* What write, erase, boot_protection and bank_swap leave alone
aux == <<sizevars, regionvars>>

drivervars == <<bootprot, bpdis, ready, intflag, pending, pc, call, write_addresses,
                read_addresses, range_to_erase, dirty, read_intflag, result, trace,
                page_intflag>>

vars == <<drivervars, sizevars, regionvars>>

hw == <<bootprot, bpdis, ready, intflag, pending>>

----------------------------------------------------------------------------
(* u32 arithmetic *)

Half == 2 ^ 16

U32(hi, lo) == <<hi, lo>>

FromNat(n) == <<n \div Half, n % Half>>

Add32(x, y) ==
    LET lo == x[2] + y[2]
        hi == x[1] + y[1] + (lo \div Half)
    IN  <<hi % Half, lo % Half>>

\* x * c for a small factor c (4, 512, 8192)
Mul32(x, c) ==
    LET lo == x[2] * c
        hi == x[1] * c + (lo \div Half)
    IN  <<hi % Half, lo % Half>>

Sub32(x, y) ==
    LET lo == x[2] - y[2]
        hi == x[1] - y[1] - (IF lo < 0 THEN 1 ELSE 0)
    IN  <<hi % Half, lo % Half>>

\* x % m for a modulus m that divides 2^16 (4, 512, 8192)
Rem32(x, m) == x[2] % m

Lt32(x, y) == x[1] < y[1] \/ (x[1] = y[1] /\ x[2] < y[2])

Le32(x, y) == x = y \/ Lt32(x, y)

Range(s, e) == [start |-> s, end |-> e]

----------------------------------------------------------------------------
(* Program constants *)

PAGESIZE == 512

BLOCKSIZE == 512 * 16

step_size == 4

\* The sticky error flags of INTFLAG that manage_error_states decodes
ErrorFlags == {"ADDRE", "LOCKE", "PROGE"}

\* Bank::Active.address()
Bank_Active_address == U32(0, 0)

----------------------------------------------------------------------------
(* Register and page-buffer accesses, as recorded in trace *)

EvReady == [k |-> "ready"]                         \* STATUS.READY read as 1
EvCmd(c) == [k |-> "cmd", c |-> c]                 \* CTRLB written: key and command c
EvDone == [k |-> "done"]                           \* INTFLAG.DONE read as 1
EvClear(f) == [k |-> "clear", f |-> f]             \* INTFLAG written with the one bit f
EvStore(d, s) == [k |-> "store", d |-> d, s |-> s] \* word read at s stored at d
EvAddr(a) == [k |-> "addr", a |-> a]               \* ADDR written
EvRead == [k |-> "intflag_read"]                   \* INTFLAG read by the decoder

----------------------------------------------------------------------------
(* Queries and pure helpers *)

is_boot_protected == ~bpdis

is_ready == ready

\* Faulty variant: only the first range is tested for emptiness
range_overlap_first_only(a, b) ==
    /\ a.start # a.end
    /\ Le32(a.start, b.end)
    /\ Le32(b.start, a.end)

range_overlap(a, b) ==
    /\ a.start # a.end
    /\ b.start # b.end
    /\ Le32(a.start, b.end)
    /\ Le32(b.start, a.end)

bp_space == FromNat(8 * 1024 * (15 - bootprot))

\* Faulty variant: the polarity of STATUS.BPDIS is taken the wrong way round
contains_bootprotected_inverted(inp) ==
    LET boot == Range(Bank_Active_address, Add32(Bank_Active_address, bp_space))
    IN  ~is_boot_protected /\ range_overlap(inp, boot)

\* Faulty variant: STATUS.BPDIS is not consulted
contains_bootprotected_no_status(inp) ==
    LET boot == Range(Bank_Active_address, Add32(Bank_Active_address, bp_space))
    IN  range_overlap(inp, boot)

contains_bootprotected(inp) ==
    LET boot == Range(Bank_Active_address, Add32(Bank_Active_address, bp_space))
    IN  is_boot_protected /\ range_overlap(inp, boot)

contains_smart_eeprom(inp) == FALSE

\* EraseGranularity::size and EraseGranularity::command
GranularitySize(g) == IF g = "Block" THEN BLOCKSIZE ELSE PAGESIZE

GranularityCommand(g) == IF g = "Block" THEN "EB" ELSE "EP"

\* set_address: the value written to ADDR, address & 0x00ff_ffff
AddrBits(address) == <<address[1] % 256, address[2]>>

\* A write of 1 to a flag of INTFLAG clears it; the bits written as 0 are kept
IntflagWrite(flags, bits) == flags \ bits

\* Range<u32>::step_by(step): whether a next element exists, and the iterator
\* after yielding it
HasNext(r) == Lt32(r.start, r.end)

Advance(r, step) ==
    LET n == Add32(r.start, FromNat(step))
    IN  IF Lt32(n, r.start) \/ ~Lt32(n, r.end)
        THEN Range(r.end, r.end)
        ELSE Range(n, r.end)

NoRange == Range(U32(0, 0), U32(0, 0))

NoCall == [op |-> "none"]

\* command(): CTRLB is written with the key and the command; NVMCTRL starts
\* executing it and drops STATUS.READY
Command(c) ==
    /\ pending' = c
    /\ ready' = FALSE

\* A call returns r
Return(r) ==
    /\ result' = r
    /\ pc' = "idle"

----------------------------------------------------------------------------
(* manage_error_states *)

\* Faulty variant: LOCKE is tested before ADDRE
ErrorState_lock_first(flags) ==
    IF "LOCKE" \in flags THEN "LockError"
    ELSE IF "ADDRE" \in flags THEN "AddressError"
    ELSE IF "PROGE" \in flags THEN "ProgrammingError"
    ELSE "Ok"

\* The `state` computed from the one read of INTFLAG
\* Faulty variant: the decoder also looks at NVME and reports it
ErrorState_nvme(flags) ==
    IF "NVME" \in flags THEN "NvmError"
    ELSE IF "ADDRE" \in flags THEN "AddressError"
    ELSE IF "LOCKE" \in flags THEN "LockError"
    ELSE IF "PROGE" \in flags THEN "ProgrammingError"
    ELSE "Ok"

ErrorState(flags) ==
    IF "ADDRE" \in flags THEN "AddressError"
    ELSE IF "LOCKE" \in flags THEN "LockError"
    ELSE IF "PROGE" \in flags THEN "ProgrammingError"
    ELSE "Ok"

\* Faulty variant: the third write repeats LOCKE and PROGE is never cleared
ErrorFlagWrites_locke_twice == <<"ADDRE", "LOCKE", "LOCKE">>

\* The three INTFLAG writes that follow, in order
ErrorFlagWrites == <<"ADDRE", "LOCKE", "PROGE">>

RECURSIVE IntflagWrites(_, _)
IntflagWrites(flags, ws) ==
    IF ws = <<>> THEN flags
    ELSE IntflagWrites(IntflagWrite(flags, {Head(ws)}), Tail(ws))

DecoderEvents == <<EvRead>> \o [i \in 1..Len(ErrorFlagWrites) |-> EvClear(ErrorFlagWrites[i])]

\* Faulty variant: the result of the decoder is dropped and the loop goes on
EraseAfterDecode_continue(state) ==
    /\ pc' = "e_loop"
    /\ result' = result

\* erase(): `self.manage_error_states()?` inside the loop
EraseAfterDecode(state) ==
    IF state = "Ok"
    THEN /\ pc' = "e_loop"
         /\ result' = result
    ELSE Return(state)

ManageErrorStates ==
    /\ pc \in {"w_decode", "e_decode", "b_decode"}
    /\ read_intflag' = intflag
    /\ intflag' = IntflagWrites(intflag, ErrorFlagWrites)
    /\ trace' = trace \o DecoderEvents
    /\ IF pc = "e_decode"
       THEN EraseAfterDecode(ErrorState(intflag))
       ELSE Return(ErrorState(intflag))
    /\ UNCHANGED <<bootprot, bpdis, ready, pending, call, write_addresses,
                   read_addresses, range_to_erase, dirty>>
    /\ UNCHANGED aux
    /\ UNCHANGED page_intflag

----------------------------------------------------------------------------
(* command_sync: the wait for INTFLAG.DONE and the write that clears it *)

AfterSync(p) ==
    CASE p = "w_pbc_done" -> "w_loop"
      [] p = "w_wp_done" -> "w_loop"
      [] p = "w_last_done" -> "w_decode"
      [] p = "e_done" -> "e_decode"
      [] p = "b_done" -> "b_decode"
      [] p = "s_done" -> "s_unreachable"

\* Faulty variant: the loop on INTFLAG.DONE is left although DONE is not set
CommandSyncDone_nowait ==
    /\ pc \in {"w_pbc_done", "w_wp_done", "w_last_done", "e_done", "b_done", "s_done"}
    /\ intflag' = IntflagWrite(intflag, {"DONE"})
    /\ trace' = trace \o <<EvDone, EvClear("DONE")>>
    /\ pc' = AfterSync(pc)
    /\ UNCHANGED <<bootprot, bpdis, ready, pending, call, write_addresses,
                   read_addresses, range_to_erase, dirty, read_intflag, result>>
    /\ UNCHANGED aux
    /\ page_intflag' = IF pc = "w_wp_done" THEN intflag ELSE page_intflag

\* Faulty variant: DONE is not written back after the wait
CommandSyncDone_keeps_done ==
    /\ pc \in {"w_pbc_done", "w_wp_done", "w_last_done", "e_done", "b_done", "s_done"}
    /\ "DONE" \in intflag
    /\ intflag' = intflag
    /\ trace' = trace \o <<EvDone, EvClear("DONE")>>
    /\ pc' = AfterSync(pc)
    /\ UNCHANGED <<bootprot, bpdis, ready, pending, call, write_addresses,
                   read_addresses, range_to_erase, dirty, read_intflag, result>>
    /\ UNCHANGED aux
    /\ page_intflag' = IF pc = "w_wp_done" THEN intflag ELSE page_intflag

CommandSyncDone ==
    /\ pc \in {"w_pbc_done", "w_wp_done", "w_last_done", "e_done", "b_done", "s_done"}
    /\ "DONE" \in intflag
    /\ intflag' = IntflagWrite(intflag, {"DONE"})
    /\ trace' = trace \o <<EvDone, EvClear("DONE")>>
    /\ pc' = AfterSync(pc)
    /\ UNCHANGED <<bootprot, bpdis, ready, pending, call, write_addresses,
                   read_addresses, range_to_erase, dirty, read_intflag, result>>
    /\ UNCHANGED aux
    /\ page_intflag' = IF pc = "w_wp_done" THEN intflag ELSE page_intflag

----------------------------------------------------------------------------
(* write *)

\* Faulty variant: the alignment of the destination is not checked
WriteGuard_source_only(destination_address, source_address, wr) ==
    IF Rem32(source_address, step_size) # 0 THEN "Alignment"
    ELSE IF contains_bootprotected(wr) THEN "Protected"
    ELSE IF contains_smart_eeprom(wr) THEN "SmartEepromArea"
    ELSE "pass"

\* The checks of write(), in the order of the code; "pass" when none rejects
WriteGuard(destination_address, source_address, wr) ==
    IF Rem32(source_address, step_size) # 0 THEN "Alignment"
    ELSE IF Rem32(destination_address, step_size) # 0 THEN "Alignment"
    ELSE IF contains_bootprotected(wr) THEN "Protected"
    ELSE IF contains_smart_eeprom(wr) THEN "SmartEepromArea"
    ELSE "pass"

\* Faulty variant: > for >=, so the last word of a page is not recognised
AtPageEnd_strict(destination_address) ==
    Rem32(destination_address, PAGESIZE) > PAGESIZE - step_size

\* destination_address % PAGESIZE >= PAGESIZE - step_size
AtPageEnd(destination_address) ==
    Rem32(destination_address, PAGESIZE) >= PAGESIZE - step_size

WriteCall(destination_address, source_address, words) ==
    LET length == Mul32(words, step_size)
        rd == Range(source_address, Add32(source_address, length))
        wr == Range(destination_address, Add32(destination_address, length))
        g == WriteGuard(destination_address, source_address, wr)
    IN  /\ pc = "idle"
        /\ call' = [op |-> "write", destination_address |-> destination_address,
                    source_address |-> source_address, words |-> words]
        /\ trace' = <<>>
        /\ read_intflag' = {}
        /\ dirty' = FALSE
        /\ range_to_erase' = NoRange
        /\ IF g = "pass"
           THEN /\ pc' = "w_pbc"
                /\ result' = "none"
                /\ write_addresses' = wr
                /\ read_addresses' = rd
           ELSE /\ Return(g)
                /\ write_addresses' = NoRange
                /\ read_addresses' = NoRange
        /\ UNCHANGED hw
        /\ UNCHANGED aux
        /\ page_intflag' = {}

\* while !self.is_ready() {}; self.command_sync(PBC) up to the command
WritePBC ==
    /\ pc = "w_pbc"
    /\ is_ready
    /\ Command("PBC")
    /\ trace' = trace \o <<EvReady, EvCmd("PBC")>>
    /\ pc' = "w_pbc_done"
    /\ UNCHANGED <<bootprot, bpdis, intflag, call, write_addresses,
                   read_addresses, range_to_erase, dirty, read_intflag, result>>
    /\ UNCHANGED aux
    /\ UNCHANGED page_intflag

\* Faulty variant: the loop is left as soon as an error flag is set
WriteStore_stops ==
    /\ pc = "w_loop"
    /\ IF HasNext(write_addresses) /\ HasNext(read_addresses) /\ intflag \cap ErrorFlags = {}
       THEN /\ trace' = Append(trace, EvStore(write_addresses.start, read_addresses.start))
            /\ write_addresses' = Advance(write_addresses, step_size)
            /\ read_addresses' = Advance(read_addresses, step_size)
            /\ dirty' = TRUE
            /\ pc' = IF AtPageEnd(write_addresses.start) THEN "w_wp" ELSE "w_loop"
       ELSE /\ trace' = trace
            /\ write_addresses' = IF HasNext(write_addresses)
                                   THEN Advance(write_addresses, step_size)
                                   ELSE write_addresses
            /\ read_addresses' = read_addresses
            /\ dirty' = dirty
            /\ pc' = "w_final"
    /\ UNCHANGED <<hw, call, range_to_erase, read_intflag, result>>
    /\ UNCHANGED aux
    /\ UNCHANGED page_intflag

\* One turn of the for loop over the zipped iterators, up to the page test
WriteStore ==
    /\ pc = "w_loop"
    /\ IF HasNext(write_addresses) /\ HasNext(read_addresses)
       THEN /\ trace' = Append(trace, EvStore(write_addresses.start, read_addresses.start))
            /\ write_addresses' = Advance(write_addresses, step_size)
            /\ read_addresses' = Advance(read_addresses, step_size)
            /\ dirty' = TRUE
            /\ pc' = IF AtPageEnd(write_addresses.start) THEN "w_wp" ELSE "w_loop"
       ELSE /\ trace' = trace
            /\ write_addresses' = IF HasNext(write_addresses)
                                   THEN Advance(write_addresses, step_size)
                                   ELSE write_addresses
            /\ read_addresses' = read_addresses
            /\ dirty' = dirty
            /\ pc' = "w_final"
    /\ UNCHANGED <<hw, call, range_to_erase, read_intflag, result>>
    /\ UNCHANGED aux
    /\ UNCHANGED page_intflag

\* Inside the loop: wait until ready, dirty = false, command_sync(WP) up to the command
WritePage ==
    /\ pc = "w_wp"
    /\ is_ready
    /\ dirty' = FALSE
    /\ Command("WP")
    /\ trace' = trace \o <<EvReady, EvCmd("WP")>>
    /\ pc' = "w_wp_done"
    /\ UNCHANGED <<bootprot, bpdis, intflag, call, write_addresses,
                   read_addresses, range_to_erase, read_intflag, result>>
    /\ UNCHANGED aux
    /\ UNCHANGED page_intflag

\* After the loop: wait until ready, then the last page if dirty
WriteLast ==
    /\ pc = "w_final"
    /\ is_ready
    /\ IF dirty
       THEN /\ Command("WP")
            /\ trace' = trace \o <<EvReady, EvCmd("WP")>>
            /\ pc' = "w_last_done"
       ELSE /\ UNCHANGED <<pending, ready>>
            /\ trace' = Append(trace, EvReady)
            /\ pc' = "w_decode"
    /\ UNCHANGED <<bootprot, bpdis, intflag, call, write_addresses,
                   read_addresses, range_to_erase, dirty, read_intflag, result>>
    /\ UNCHANGED aux
    /\ UNCHANGED page_intflag

----------------------------------------------------------------------------
(* erase *)

\* Faulty variant: the address is used as given
FlashAddress_unrounded(address, granularity) == address

\* address - address % granularity.size()
FlashAddress(address, granularity) ==
    Sub32(address, FromNat(Rem32(address, GranularitySize(granularity))))

EraseGuard(range) ==
    IF contains_bootprotected(range) THEN "Protected"
    ELSE IF contains_smart_eeprom(range) THEN "SmartEepromArea"
    ELSE "pass"

EraseCall(address, length, granularity) ==
    LET flash_address == FlashAddress(address, granularity)
        range == Range(flash_address,
                       Add32(flash_address, Mul32(length, GranularitySize(granularity))))
        g == EraseGuard(range)
    IN  /\ pc = "idle"
        /\ call' = [op |-> "erase", address |-> address, length |-> length,
                    granularity |-> granularity]
        /\ trace' = <<>>
        /\ read_intflag' = {}
        /\ dirty' = FALSE
        /\ write_addresses' = NoRange
        /\ read_addresses' = NoRange
        /\ IF g = "pass"
           THEN /\ pc' = "e_loop"
                /\ result' = "none"
                /\ range_to_erase' = range
           ELSE /\ Return(g)
                /\ range_to_erase' = NoRange
        /\ UNCHANGED hw
        /\ UNCHANGED aux
        /\ page_intflag' = {}

\* One turn of the for loop up to set_address, or the Ok(()) after the loop
EraseNext ==
    /\ pc = "e_loop"
    /\ IF HasNext(range_to_erase)
       THEN /\ trace' = Append(trace, EvAddr(AddrBits(range_to_erase.start)))
            /\ range_to_erase' = Advance(range_to_erase, GranularitySize(call.granularity))
            /\ pc' = "e_cmd"
            /\ result' = result
       ELSE /\ trace' = trace
            /\ range_to_erase' = range_to_erase
            /\ Return("Ok")
    /\ UNCHANGED <<hw, call, write_addresses, read_addresses, dirty, read_intflag>>
    /\ UNCHANGED aux
    /\ UNCHANGED page_intflag

\* wait until ready, then command_sync(granularity.command()) up to the command
EraseCommand ==
    /\ pc = "e_cmd"
    /\ is_ready
    /\ Command(GranularityCommand(call.granularity))
    /\ trace' = trace \o <<EvReady, EvCmd(GranularityCommand(call.granularity))>>
    /\ pc' = "e_done"
    /\ UNCHANGED <<bootprot, bpdis, intflag, call, write_addresses,
                   read_addresses, range_to_erase, dirty, read_intflag, result>>
    /\ UNCHANGED aux
    /\ UNCHANGED page_intflag

----------------------------------------------------------------------------
(* boot_protection *)

\* boot_protection without the comparison of line 304
BootProtectionCall_always(protect) ==
    /\ pc = "idle"
    /\ call' = [op |-> "boot_protection", protect |-> protect]
    /\ trace' = <<>>
    /\ read_intflag' = {}
    /\ dirty' = FALSE
    /\ write_addresses' = NoRange
    /\ read_addresses' = NoRange
    /\ range_to_erase' = NoRange
    /\ pc' = "b_cmd"
    /\ result' = "none"
    /\ UNCHANGED hw
    /\ UNCHANGED aux
    /\ page_intflag' = {}

BootProtectionCall(protect) ==
    /\ pc = "idle"
    /\ call' = [op |-> "boot_protection", protect |-> protect]
    /\ trace' = <<>>
    /\ read_intflag' = {}
    /\ dirty' = FALSE
    /\ write_addresses' = NoRange
    /\ read_addresses' = NoRange
    /\ range_to_erase' = NoRange
    /\ IF is_boot_protected # protect
       THEN /\ pc' = "b_cmd"
            /\ result' = "none"
       ELSE Return("NoChangeBootProtection")
    /\ UNCHANGED hw
    /\ UNCHANGED aux
    /\ page_intflag' = {}

\* Faulty variant: the two commands are exchanged
BootProtectionCommand_swapped ==
    LET c == IF call.protect THEN "SBPDIS" ELSE "CBPDIS"
    IN  /\ pc = "b_cmd"
        /\ is_ready
        /\ Command(c)
        /\ trace' = trace \o <<EvReady, EvCmd(c)>>
        /\ pc' = "b_done"
        /\ UNCHANGED <<bootprot, bpdis, intflag, call, write_addresses,
                       read_addresses, range_to_erase, dirty, read_intflag, result>>
        /\ UNCHANGED aux
        /\ UNCHANGED page_intflag

BootProtectionCommand ==
    LET c == IF ~call.protect THEN "SBPDIS" ELSE "CBPDIS"
    IN  /\ pc = "b_cmd"
        /\ is_ready
        /\ Command(c)
        /\ trace' = trace \o <<EvReady, EvCmd(c)>>
        /\ pc' = "b_done"
        /\ UNCHANGED <<bootprot, bpdis, intflag, call, write_addresses,
                       read_addresses, range_to_erase, dirty, read_intflag, result>>
        /\ UNCHANGED aux
        /\ UNCHANGED page_intflag

----------------------------------------------------------------------------
(* bank_swap *)

\* command_sync(BKSWRST): the command is written at once, READY is not awaited
BankSwapCall ==
    /\ pc = "idle"
    /\ call' = [op |-> "bank_swap"]
    /\ Command("BKSWRST")
    /\ trace' = <<EvCmd("BKSWRST")>>
    /\ read_intflag' = {}
    /\ dirty' = FALSE
    /\ write_addresses' = NoRange
    /\ read_addresses' = NoRange
    /\ range_to_erase' = NoRange
    /\ pc' = "s_done"
    /\ result' = "none"
    /\ UNCHANGED <<bootprot, bpdis, intflag>>
    /\ UNCHANGED aux
    /\ page_intflag' = {}

\* Faulty variant: the function returns once the command has completed
BankSwapUnreachable_returns ==
    /\ pc = "s_unreachable"
    /\ Return("Ok")
    /\ UNCHANGED <<bootprot, bpdis, ready, intflag, pending, call, write_addresses,
                   read_addresses, range_to_erase, dirty, read_intflag, trace>>
    /\ UNCHANGED aux
    /\ UNCHANGED page_intflag

\* unreachable!(): the panic does not return
BankSwapUnreachable ==
    /\ pc = "s_unreachable"
    /\ pc' = "panic"
    /\ UNCHANGED <<bootprot, bpdis, ready, intflag, pending, call, write_addresses,
                   read_addresses, range_to_erase, dirty, read_intflag, result, trace>>
    /\ UNCHANGED aux
    /\ UNCHANGED page_intflag

----------------------------------------------------------------------------
(* retrieve_flash_size, retrieve_bank_size *)

MaxSizeCalls == 3

\* Faulty variant: the static is not consulted, PARAM is read on every call
Retrieve_uncached(fn) ==
    /\ size_last.fn # "panic"
    /\ size_calls < MaxSizeCalls
    /\ size_calls' = size_calls + 1
    /\ size_reads' = size_reads + 1
    /\ IF param_psz # 512
       THEN /\ size_last' = [fn |-> "panic", v |-> 0]
            /\ UNCHANGED <<FLASHSIZE, size_returned>>
       ELSE LET flash_size == param_nvmp * 512
            IN  /\ FLASHSIZE' = flash_size
                /\ size_returned' = size_returned \cup {flash_size}
                /\ size_last' = [fn |-> fn,
                                 v |-> IF fn = "bank" THEN flash_size \div 2 ELSE flash_size]
    /\ UNCHANGED <<param_nvmp, param_psz>>

\* One call of retrieve_flash_size (fn = "flash") or of retrieve_bank_size
\* (fn = "bank"), which halves what retrieve_flash_size returns
Retrieve(fn) ==
    /\ size_last.fn # "panic"
    /\ size_calls < MaxSizeCalls
    /\ size_calls' = size_calls + 1
    /\ IF FLASHSIZE # 0
       THEN /\ size_returned' = size_returned \cup {FLASHSIZE}
            /\ size_last' = [fn |-> fn,
                             v |-> IF fn = "bank" THEN FLASHSIZE \div 2 ELSE FLASHSIZE]
            /\ UNCHANGED <<FLASHSIZE, size_reads>>
       ELSE /\ size_reads' = size_reads + 1
            /\ IF param_psz # 512
               THEN /\ size_last' = [fn |-> "panic", v |-> 0]
                    /\ UNCHANGED <<FLASHSIZE, size_returned>>
               ELSE LET flash_size == param_nvmp * 512
                    IN  /\ FLASHSIZE' = flash_size
                        /\ size_returned' = size_returned \cup {flash_size}
                        /\ size_last' = [fn |-> fn,
                                         v |-> IF fn = "bank" THEN flash_size \div 2
                                               ELSE flash_size]
    /\ UNCHANGED <<param_nvmp, param_psz>>

RetrieveFlashSize == Retrieve("flash") /\ UNCHANGED <<drivervars, regionvars>>

RetrieveBankSize == Retrieve("bank") /\ UNCHANGED <<drivervars, regionvars>>

PageCounts == {1, 512, 1024, 2048, 65535}

\* PARAM.NVMP reads differently from now on
ParamChange ==
    /\ \E n \in PageCounts \ {param_nvmp} : param_nvmp' = n
    /\ UNCHANGED <<param_psz, FLASHSIZE, size_last, size_returned, size_reads, size_calls>>
    /\ UNCHANGED <<drivervars, regionvars>>

----------------------------------------------------------------------------
(* user_page, calibration_area, temperatures_calibration_area *)

\* A u64 or u128 value is the sequence of its bytes, the least significant
\* first: width 8 or 16

RECURSIVE BitOr(_, _)
BitOr(x, y) ==
    IF x = 0 THEN y
    ELSE IF y = 0 THEN x
    ELSE (IF x % 2 = 1 \/ y % 2 = 1 THEN 1 ELSE 0) + 2 * BitOr(x \div 2, y \div 2)

\* Faulty variant: the shift runs from the top of the value downwards
ShiftedOr_big_endian(buffer, byte, i) ==
    [buffer EXCEPT ![Len(buffer) - i] = BitOr(@, byte)]

\* buffer |= (byte as uN) << (i * 8)
ShiftedOr(buffer, byte, i) == [buffer EXCEPT ![i + 1] = BitOr(@, byte)]

\* for i in 0..n { buffer |= read_volatile(base_addr.offset(i)) << (i * 8) }
RECURSIVE ReadLoop(_, _, _, _)
ReadLoop(region, i, n, buffer) ==
    IF i >= n THEN buffer
    ELSE ReadLoop(region, i + 1, n, ShiftedOr(buffer, nvm_bytes[region][i], i))

\* The reader of region: n bytes into a zero value of width bytes
ReadRegion(region, n, width) == ReadLoop(region, 0, n, [j \in 1..width |-> 0])

\* 0x0080_4000, 16 bytes into a u128
UserPage ==
    /\ region_last' = [fn |-> "user_page", v |-> ReadRegion("user", 16, 16)]
    /\ UNCHANGED <<nvm_bytes, drivervars, sizevars>>

\* 0x0080_0080, 6 bytes into a u64
CalibrationArea ==
    /\ region_last' = [fn |-> "calibration_area", v |-> ReadRegion("calibration", 6, 8)]
    /\ UNCHANGED <<nvm_bytes, drivervars, sizevars>>

\* 0x0080_0100, 11 bytes into a u128
TemperaturesCalibrationArea ==
    /\ region_last' = [fn |-> "temperatures_calibration_area",
                       v |-> ReadRegion("temperatures", 11, 16)]
    /\ UNCHANGED <<nvm_bytes, drivervars, sizevars>>

----------------------------------------------------------------------------
(* NVMCTRL *)

\* The command in execution completes: DONE is set, together with the error
\* flags errs the command raised; SBPDIS and CBPDIS take effect when they
\* raised none
HwDone(errs) ==
    /\ pending # "none"
    /\ intflag' = intflag \cup {"DONE"} \cup errs
    /\ bpdis' = IF errs = {} /\ pending = "SBPDIS" THEN TRUE
                ELSE IF errs = {} /\ pending = "CBPDIS" THEN FALSE
                ELSE bpdis
    /\ pending' = "none"
    /\ UNCHANGED <<bootprot, ready, pc, call, write_addresses, read_addresses,
                   range_to_erase, dirty, read_intflag, result, trace>>
    /\ UNCHANGED aux
    /\ UNCHANGED page_intflag

\* BKSWRST swaps the banks and resets the device: the program stops here
HwReset ==
    /\ pending = "BKSWRST"
    /\ pending' = "none"
    /\ pc' = "reset"
    /\ UNCHANGED <<bootprot, bpdis, ready, intflag, call, write_addresses,
                   read_addresses, range_to_erase, dirty, read_intflag, result, trace>>
    /\ UNCHANGED aux
    /\ UNCHANGED page_intflag

\* The page-buffer store just made raises the error flags errs
HwStoreError(errs) ==
    /\ call.op = "write"
    /\ pc \in {"w_loop", "w_wp", "w_final"}
    /\ Len(trace) >= 1
    /\ trace[Len(trace)].k = "store"
    /\ errs # {}
    /\ ~(errs \subseteq intflag)
    /\ intflag' = intflag \cup errs
    /\ UNCHANGED <<bootprot, bpdis, ready, pending, pc, call, write_addresses,
                   read_addresses, range_to_erase, dirty, read_intflag, result, trace,
                   page_intflag>>
    /\ UNCHANGED aux

\* STATUS.READY rises once no command is in execution
HwReady ==
    /\ ~ready
    /\ pending = "none"
    /\ ready' = TRUE
    /\ UNCHANGED <<bootprot, bpdis, intflag, pending, pc, call, write_addresses,
                   read_addresses, range_to_erase, dirty, read_intflag, result, trace>>
    /\ UNCHANGED aux
    /\ UNCHANGED page_intflag

----------------------------------------------------------------------------
(* Inputs *)

MaxWords == 2

MaxEraseLength == 3

BootprotValues == {0, 14, 15}

\* Destinations: inside the protected range (aligned and not), its last word
\* and its end (bootprot 14), a page start, mid-page, the last word of a
\* page, and the last word of the address space
Destinations ==
    {U32(0, 0), U32(0, 6), U32(0, 8188), U32(0, 8192), U32(4, 0), U32(4, 256),
     U32(4, 508), U32(65535, 65532)}

Sources == {U32(8192, 0), U32(8192, 2), U32(65535, 65532)}

\* Word counts: 0..MaxWords, and 2^30 and 2^30 + 1, whose byte length wraps
WordCounts == {FromNat(n) : n \in 0..MaxWords} \cup {U32(16384, 0), U32(16384, 1)}

\* Whole pages and more: from a page start, from mid-page and into the
\* protected range
LongWrites ==
    {<<U32(4, 0), U32(8192, 0), FromNat(128)>>,
     <<U32(4, 0), U32(8192, 0), FromNat(130)>>,
     <<U32(4, 256), U32(8192, 0), FromNat(128)>>,
     <<U32(0, 0), U32(8192, 0), FromNat(128)>>}

WriteRequests == (Destinations \X Sources \X WordCounts) \cup LongWrites

EraseAddresses ==
    {U32(0, 0), U32(0, 8192), U32(0, 8448), U32(4, 0), U32(4, 528),
     U32(260, 0), U32(65535, 57344)}

\* Lengths: 0..MaxEraseLength, and 2^23 and 2^23 + 1, whose byte length wraps
EraseLengths == {FromNat(n) : n \in 0..MaxEraseLength} \cup {U32(128, 0), U32(128, 1)}

Granularities == {"Block", "Page"}

----------------------------------------------------------------------------

DriverInit ==
    /\ bootprot \in BootprotValues
    /\ bpdis = FALSE
    /\ ready \in BOOLEAN
    /\ intflag = {}
    /\ pending = "none"
    /\ pc = "idle"
    /\ call = NoCall
    /\ write_addresses = NoRange
    /\ read_addresses = NoRange
    /\ range_to_erase = NoRange
    /\ dirty = FALSE
    /\ read_intflag = {}
    /\ result = "none"
    /\ trace = <<>>
    /\ page_intflag = {}

\* Before the first call of retrieve_flash_size
SizeStart ==
    /\ FLASHSIZE = 0
    /\ size_last = [fn |-> "none", v |-> 0]
    /\ size_returned = {}
    /\ size_reads = 0
    /\ size_calls = 0

RegionStart ==
    /\ nvm_bytes = [r \in {"user", "calibration", "temperatures"} |-> [i \in 0..15 |-> 255]]
    /\ region_last = [fn |-> "none", v |-> <<>>]

Init ==
    /\ DriverInit
    /\ param_nvmp = 2048
    /\ param_psz = 512
    /\ SizeStart
    /\ RegionStart

Next ==
    \/ \E w \in WriteRequests : WriteCall(w[1], w[2], w[3])
    \/ WritePBC
    \/ WriteStore
    \/ WritePage
    \/ WriteLast
    \/ \E a \in EraseAddresses, l \in EraseLengths, g \in Granularities : EraseCall(a, l, g)
    \/ EraseNext
    \/ EraseCommand
    \/ \E p \in BOOLEAN : BootProtectionCall(p)
    \/ BootProtectionCommand
    \/ BankSwapCall
    \/ BankSwapUnreachable
    \/ CommandSyncDone
    \/ ManageErrorStates
    \/ \E errs \in SUBSET ErrorFlags : HwDone(errs)
    \/ HwReset
    \/ HwReady

Spec == Init /\ [][Next]_vars

----------------------------------------------------------------------------
(* The flash size, with a PARAM register that may read differently later *)

SizeInit ==
    /\ DriverInit
    /\ bootprot = 15
    /\ ready
    /\ param_nvmp \in PageCounts
    /\ param_psz \in {512, 1024}
    /\ SizeStart
    /\ RegionStart

SizeNext ==
    \/ RetrieveFlashSize
    \/ RetrieveBankSize
    \/ ParamChange

SizeSpec == SizeInit /\ [][SizeNext]_vars

----------------------------------------------------------------------------
(* The readers of the fixed regions, over several contents of the regions *)

MaxSeed == 11

Regions == {"user", "calibration", "temperatures"}

RegionOffset(r) == IF r = "user" THEN 0 ELSE IF r = "calibration" THEN 64 ELSE 128

\* Byte i of region r holds seed + offset of r + i * stride, modulo 256
Contents(seed, stride) ==
    [r \in Regions |-> [i \in 0..15 |-> (seed + RegionOffset(r) + i * stride) % 256]]

RegionInit ==
    /\ DriverInit
    /\ bootprot = 15
    /\ ready
    /\ param_nvmp = 2048
    /\ param_psz = 512
    /\ SizeStart
    /\ \E seed \in 0..MaxSeed, stride \in {0, 1, 17} : nvm_bytes = Contents(seed, stride)
    /\ region_last = [fn |-> "none", v |-> <<>>]

RegionNext ==
    \/ UserPage
    \/ CalibrationArea
    \/ TemperaturesCalibrationArea

RegionSpec == RegionInit /\ [][RegionNext]_vars

----------------------------------------------------------------------------
(* The driver on hardware that completes what it is given *)

\* A write over a page end, one inside a page, one refused for alignment and
\* one into the protected range
FairWrites ==
    {<<U32(4, 508), U32(8192, 0), FromNat(MaxWords)>>,
     <<U32(4, 0), U32(8192, 0), FromNat(1)>>,
     <<U32(4, 0), U32(8192, 2), FromNat(1)>>,
     <<U32(0, 0), U32(8192, 0), FromNat(1)>>}

FairErases ==
    {<<U32(4, 0), FromNat(0), "Page">>,
     <<U32(4, 0), FromNat(MaxEraseLength - 1), "Page">>,
     <<U32(0, 0), FromNat(1), "Block">>}

\* The steps of the processor inside write, erase and boot_protection
DriverStep ==
    \/ WritePBC
    \/ WriteStore
    \/ WritePage
    \/ WriteLast
    \/ EraseNext
    \/ EraseCommand
    \/ BootProtectionCommand
    \/ CommandSyncDone
    \/ ManageErrorStates

FairNext ==
    \/ \E w \in FairWrites : WriteCall(w[1], w[2], w[3])
    \/ \E e \in FairErases : EraseCall(e[1], e[2], e[3])
    \/ \E p \in BOOLEAN : BootProtectionCall(p)
    \/ DriverStep
    \/ \E errs \in SUBSET ErrorFlags : HwDone(errs)
    \/ HwReady

\* The processor keeps running, every command completes and READY rises
FairSpec ==
    /\ Init
    /\ [][FairNext]_vars
    /\ WF_vars(DriverStep)
    /\ WF_vars(\E errs \in SUBSET ErrorFlags : HwDone(errs))
    /\ WF_vars(HwReady)

----------------------------------------------------------------------------
(* The driver on hardware that raises every flag of INTFLAG when a command *)
(* completes, and error flags on a page-buffer store                       *)

\* The flags of INTFLAG the decoder does not look at
OtherFlags == {"NVME", "ECCSE", "ECCDE"}

WideNext ==
    \/ \E w \in FairWrites : WriteCall(w[1], w[2], w[3])
    \/ \E e \in FairErases : EraseCall(e[1], e[2], e[3])
    \/ \E p \in BOOLEAN : BootProtectionCall(p)
    \/ DriverStep
    \/ \E errs \in SUBSET (ErrorFlags \cup OtherFlags) : HwDone(errs)
    \/ \E errs \in SUBSET ErrorFlags : HwStoreError(errs)
    \/ HwReady

WideSpec == Init /\ [][WideNext]_vars

----------------------------------------------------------------------------
(* Vocabulary of the properties *)

Kind(k) == SelectSeq(trace, LAMBDA e : e.k = k)

Count(k) == Len(Kind(k))

CmdCount(c) == Len(SelectSeq(trace, LAMBDA e : e.k = "cmd" /\ e.c = c))

\* The stores and commands of the current call, in order
StoresAndCommands == SelectSeq(trace, LAMBDA e : e.k \in {"cmd", "store"})

\* No CTRLB write, no page-buffer store, no ADDR write, no INTFLAG write
NoHardwareAccess == \A i \in 1..Len(trace) : trace[i].k \notin {"cmd", "store", "addr", "clear"}

\* The half-open ranges a and b have a byte address in common
SharesByte(a, b) ==
    /\ Lt32(a.start, a.end)
    /\ Lt32(b.start, b.end)
    /\ Lt32(a.start, b.end)
    /\ Lt32(b.start, a.end)

\* [0, 8 KiB * (15 - bootprot))
ProtectedRange == Range(U32(0, 0), FromNat(8192 * (15 - bootprot)))

UnitSize == IF call.granularity = "Block" THEN 8192 ELSE 512

RoundedAddress == Sub32(call.address, FromNat(call.address[2] % UnitSize))

\* The range of the current write or erase request, its end in 32-bit arithmetic
RequestRange ==
    IF call.op = "write"
    THEN Range(call.destination_address,
               Add32(call.destination_address, Mul32(call.words, 4)))
    ELSE Range(RoundedAddress, Add32(RoundedAddress, Mul32(call.length, UnitSize)))

SourceRange == Range(call.source_address, Add32(call.source_address, Mul32(call.words, 4)))

Misaligned == call.destination_address[2] % 4 # 0 \/ call.source_address[2] % 4 # 0

IsRequest == call.op \in {"write", "erase"}

\* The call has returned, and not from one of the checks made before the hardware
ReturnedPastGuards ==
    /\ pc = "idle"
    /\ result \in {"Ok", "AddressError", "LockError", "ProgrammingError"}

\* Index of the 512-byte page of address x
PageIndex(x) == x[1] * 128 + (x[2] \div 512)

PagesOf(r) ==
    IF Lt32(r.start, r.end)
    THEN PageIndex(Sub32(r.end, U32(0, 1))) - PageIndex(r.start) + 1
    ELSE 0

----------------------------------------------------------------------------
(* C1 *)

C1_Covered == IsRequest /\ ~bpdis /\ SharesByte(RequestRange, ProtectedRange)

\* C1, as stated: a write or erase whose range overlaps the protected range
\* while boot protection is enabled returns Protected and accesses no hardware.
C1_Original ==
    C1_Covered => (pc = "idle" /\ result = "Protected" /\ NoHardwareAccess)

\* C1, amended: such a request returns without any hardware access, and it
\* returns Protected, except that a write with a misaligned source or
\* destination returns Alignment (the alignment checks come first).
C1_Amended ==
    C1_Covered =>
        /\ pc = "idle"
        /\ NoHardwareAccess
        /\ result = IF call.op = "write" /\ Misaligned THEN "Alignment" ELSE "Protected"

C1_Witness ==
    /\ C1_Covered
    /\ call.op = "write"
    /\ call.words = FromNat(128)
    /\ result = "Protected"

----------------------------------------------------------------------------
(* C2 *)

\* C2: contains_bootprotected(r) is true only if boot protection is active and
\* r shares at least one byte address with [0, bp_space); a range that starts
\* at bp_space is not reported.
C2_Claim ==
    IsRequest =>
        (contains_bootprotected(RequestRange)
            => (~bpdis /\ SharesByte(RequestRange, ProtectedRange)))

----------------------------------------------------------------------------
(* C3 *)

\* C3: a write whose destination or source address is not a multiple of 4
\* returns Alignment and issues no hardware command and no page-buffer store,
\* whatever the other arguments.
C3_Alignment ==
    (call.op = "write" /\ Misaligned)
        => (pc = "idle" /\ result = "Alignment" /\ NoHardwareAccess)

C3_Witness ==
    /\ call.op = "write"
    /\ call.destination_address[2] % 4 # 0
    /\ call.source_address[2] % 4 = 0
    /\ call.words = FromNat(2)
    /\ result = "Alignment"

----------------------------------------------------------------------------
(* C4 *)

\* C4: a write that passes the checks stores exactly word_count words, the
\* i-th being the word read at source_address + 4*i stored at
\* destination_address + 4*i, in increasing order of i, for every 32-bit
\* destination_address, source_address and word_count.
C4_Claim ==
    (call.op = "write" /\ ReturnedPastGuards) =>
        LET stores == Kind("store")
        IN  /\ FromNat(Len(stores)) = call.words
            /\ \A i \in 1..Len(stores) :
                 /\ stores[i].d = Add32(call.destination_address, FromNat(4 * (i - 1)))
                 /\ stores[i].s = Add32(call.source_address, FromNat(4 * (i - 1)))

----------------------------------------------------------------------------
(* C5 *)

IsWP(e) == e.k = "cmd" /\ e.c = "WP"

IsPageEndStore(e) == e.k = "store" /\ e.d[2] % 512 = 508

\* C5: a write that passes the checks issues exactly one PBC; a WP follows
\* each store to the last word of a page and one more WP follows the loop
\* exactly when words are still buffered; so the number of WP commands is the
\* number of pages the destination range intersects, no WP is issued with
\* nothing buffered and no stored word is left unflushed.
C5_Claim ==
    (call.op = "write" /\ ReturnedPastGuards) =>
        LET sc == StoresAndCommands
            n == Len(sc)
        IN  /\ CmdCount("PBC") = 1
            /\ n >= 1 /\ sc[1] = EvCmd("PBC")
            /\ \A j \in 1..n : IsPageEndStore(sc[j]) => (j < n /\ IsWP(sc[j + 1]))
            /\ \A j \in 1..n : IsWP(sc[j]) =>
                 /\ j > 1
                 /\ sc[j - 1].k = "store"
                 /\ (IsPageEndStore(sc[j - 1]) \/ j = n)
            /\ sc[n].k # "store"
            /\ CmdCount("WP") = PagesOf(RequestRange)

----------------------------------------------------------------------------
(* C6 *)

C6_Covered == call.op = "write" /\ call.words = FromNat(128) /\ ReturnedPastGuards

\* C6, as stated: a write of 128 words that passes the checks issues exactly
\* one PBC and exactly one WP, for every 4-byte-aligned destination_address.
C6_Original ==
    C6_Covered => (CmdCount("PBC") = 1 /\ CmdCount("WP") = 1)

\* C6, amended: such a write issues exactly one PBC, and exactly one WP when
\* destination_address is a multiple of 512; when it is a multiple of 4 only,
\* the 128 words straddle a page boundary and two WP are issued; and when
\* destination_address + 512 or source_address + 512 does not fit in 32 bits
\* nothing is stored and no WP is issued.
C6_Amended ==
    C6_Covered =>
        /\ CmdCount("PBC") = 1
        /\ CmdCount("WP") =
             IF ~Lt32(RequestRange.start, RequestRange.end)
                \/ ~Lt32(SourceRange.start, SourceRange.end) THEN 0
             ELSE IF call.destination_address[2] % 512 = 0 THEN 1
             ELSE 2

C6_Witness ==
    /\ C6_Covered
    /\ call.destination_address[2] % 512 = 0
    /\ Count("store") = 128
    /\ CmdCount("PBC") = 1
    /\ CmdCount("WP") = 1

----------------------------------------------------------------------------
(* C7 *)

\* C7: erase uses flash_address = address - (address mod size) for the
\* protection check and for the loop: the check is made on
\* [flash_address, flash_address + length*size) and the i-th address written
\* to ADDR is flash_address + i*size (its low 24 bits), inside that range.
C7_Rounding ==
    call.op = "erase" =>
        LET addrs == Kind("addr")
            unit(i) == Add32(RoundedAddress, Mul32(FromNat(i - 1), UnitSize))
        IN  /\ \A i \in 1..Len(addrs) :
                 /\ addrs[i].a = <<unit(i)[1] % 256, unit(i)[2]>>
                 /\ Le32(RequestRange.start, unit(i))
                 /\ Lt32(unit(i), RequestRange.end)
            /\ pc = "idle" =>
                 (result = "Protected"
                    <=> (~bpdis /\ range_overlap(RequestRange, ProtectedRange)))

C7_Witness ==
    /\ call.op = "erase"
    /\ call.address[2] % UnitSize # 0
    /\ pc = "idle"
    /\ result = "Ok"
    /\ Count("addr") = 2
    /\ Count("cmd") = 2

----------------------------------------------------------------------------
(* C8 *)

\* C8: once the decoder has reported an error after the erase command of unit
\* k, erase has returned that error: the k + 1 units so far each had their
\* ADDR write, their erase command and their decoder run, and the decoder run
\* that found the error is the last hardware access of the call.
C8_StopOnError ==
    (call.op = "erase" /\ ErrorState(read_intflag) # "Ok") =>
        LET n == Len(trace)
            m == Len(DecoderEvents)
        IN  /\ pc = "idle"
            /\ result = ErrorState(read_intflag)
            /\ Count("cmd") >= 1
            /\ Count("addr") = Count("cmd")
            /\ Count("intflag_read") = Count("cmd")
            /\ n >= m
            /\ SubSeq(trace, n - m + 1, n) = DecoderEvents

C8_Witness ==
    /\ call.op = "erase"
    /\ pc = "idle"
    /\ result = "LockError"
    /\ Count("cmd") = 2
    /\ HasNext(range_to_erase)

----------------------------------------------------------------------------
(* C9 *)

DecodePcs == {"w_decode", "e_decode", "b_decode"}

\* C9: every run of manage_error_states writes INTFLAG exactly once for each
\* of ADDRE, LOCKE and PROGE and leaves all three clear, whatever was set
\* before and whatever it returns.
C9_Clears ==
    [][(pc \in DecodePcs /\ pc' # pc) =>
         LET new == SubSeq(trace', Len(trace) + 1, Len(trace'))
         IN  /\ intflag' \cap ErrorFlags = {}
             /\ \A f \in ErrorFlags :
                  Cardinality({i \in 1..Len(new) : new[i].k = "clear" /\ new[i].f = f}) = 1
      ]_vars

C9_Witness ==
    /\ pc = "idle"
    /\ read_intflag = ErrorFlags
    /\ result = "AddressError"
    /\ intflag = {}

----------------------------------------------------------------------------
(* C10 *)

\* C10: the decoder classifies the one value it read from INTFLAG by
\* priority: AddressError if ADDRE is set, else LockError if LOCKE is set,
\* else ProgrammingError if PROGE is set, and Ok exactly when none is set
\* (an Ok inside the erase loop lets the loop go on).
C10_Priority ==
    Count("intflag_read") >= 1 =>
        /\ "ADDRE" \in read_intflag => result = "AddressError"
        /\ ("ADDRE" \notin read_intflag /\ "LOCKE" \in read_intflag)
             => result = "LockError"
        /\ (read_intflag \cap {"ADDRE", "LOCKE"} = {} /\ "PROGE" \in read_intflag)
             => result = "ProgrammingError"
        /\ read_intflag \cap {"ADDRE", "LOCKE", "PROGE"} = {}
             => (result = "Ok" \/ (call.op = "erase" /\ result = "none"))
        /\ result \in {"AddressError", "LockError", "ProgrammingError"} => pc = "idle"
        /\ Len(SelectSeq(trace, LAMBDA e : e.k = "clear" /\ e.f # "DONE"))
             = 3 * Count("intflag_read")

C10_Witness ==
    /\ pc = "idle"
    /\ {"ADDRE", "PROGE"} \subseteq read_intflag
    /\ result = "AddressError"
    /\ call.op = "write"

----------------------------------------------------------------------------
(* C11 *)

\* The step is the entry into boot_protection
BootProtectionEntry ==
    /\ pc = "idle"
    /\ call'.op = "boot_protection"
    /\ <<pc, call, result, trace>>' # <<pc, call, result, trace>>

\* C11: boot_protection(p) called while is_boot_protected() already equals p
\* returns NoChangeBootProtection at once: it issues no command, touches no
\* register, and leaves STATUS and INTFLAG as they were.
C11_NoChange ==
    [][(BootProtectionEntry /\ call'.protect = is_boot_protected) =>
         /\ pc' = "idle"
         /\ result' = "NoChangeBootProtection"
         /\ trace' = <<>>
         /\ UNCHANGED <<bootprot, bpdis, ready, intflag, pending>>
      ]_vars

\* Protection was switched off by an earlier call, and is asked off again
C11_Witness ==
    /\ call = [op |-> "boot_protection", protect |-> FALSE]
    /\ pc = "idle"
    /\ result = "NoChangeBootProtection"
    /\ bpdis
    /\ trace = <<>>

----------------------------------------------------------------------------
(* C12 *)

BankSwapPcs == {"s_done", "s_unreachable", "reset", "panic"}

\* Bank-swap positions are left for bank-swap positions only, and the reset
\* and the panic are never left
BankSwapStays ==
    pc \in BankSwapPcs =>
        /\ call'.op = "bank_swap"
        /\ pc' \in BankSwapPcs
        /\ pc \in {"reset", "panic"} => pc' = pc

BankSwapRunning ==
    call.op = "bank_swap" =>
        /\ pc \in BankSwapPcs
        /\ result = "none"
        /\ Count("cmd") = 1
        /\ CmdCount("BKSWRST") = 1
        /\ pc = "s_done" => trace = <<EvCmd("BKSWRST")>>

\* C12: bank_swap never returns to its caller: once BKSWRST is issued the
\* call is for ever waiting for DONE, stopped by the device reset, or stopped
\* in the unreachable!() panic; it yields no result, issues no other command
\* and no other call begins.
C12_NeverReturns == []BankSwapRunning /\ [][BankSwapStays]_vars

\* DONE was set without a reset and the call reached unreachable!()
C12_Witness ==
    /\ call.op = "bank_swap"
    /\ pc = "panic"
    /\ trace = <<EvCmd("BKSWRST"), EvDone, EvClear("DONE")>>

----------------------------------------------------------------------------
(* C13 *)

\* Positions of `while !self.is_ready() {}`
ReadyWaitPcs == {"w_pbc", "w_wp", "w_final", "e_cmd", "b_cmd"}

\* Positions of the loop on INTFLAG.DONE in command_sync
DoneWaitPcs == {"w_pbc_done", "w_wp_done", "w_last_done", "e_done", "b_done", "s_done"}

\* While READY is clear, or DONE is after a command, the call stays where it
\* is: it does not return and touches no register
BusyWaitHolds ==
    ((pc \in ReadyWaitPcs /\ ~ready) \/ (pc \in DoneWaitPcs /\ "DONE" \notin intflag))
        => /\ pc' = pc
           /\ trace' = trace
           /\ result' = result
           /\ call' = call

\* C13: write, erase and boot_protection wait without timeout. On hardware
\* that in the end sets READY and completes every command each call returns;
\* while READY or DONE is not set the call neither returns nor issues a
\* further command.
C13_BusyWait ==
    /\ [](pc # "idle" => <>(pc = "idle" /\ result # "none"))
    /\ [][BusyWaitHolds]_vars

\* A write over a page end returned after its three commands
C13_Witness ==
    /\ call.op = "write"
    /\ pc = "idle"
    /\ result = "Ok"
    /\ Count("cmd") = 3
    /\ Count("done") = 3

----------------------------------------------------------------------------
(* C14 *)

ProbeAddresses == Destinations \cup EraseAddresses

\* Ranges between any two of the addresses of the requests: proper, empty
\* and with the end before the start
ProbeRanges == {Range(a, b) : a \in ProbeAddresses, b \in ProbeAddresses}

\* C14: while STATUS.BPDIS is set contains_bootprotected is false for every
\* range, whatever STATUS.BOOTPROT holds, and no write or erase is refused
\* with Protected.
C14_Disabled ==
    bpdis =>
        /\ \A r \in ProbeRanges : ~contains_bootprotected(r)
        /\ IsRequest => /\ ~contains_bootprotected(RequestRange)
                        /\ result # "Protected"

\* With the largest protected range and protection switched off, a write to
\* address 0 went through
C14_Witness ==
    /\ bpdis
    /\ bootprot = 0
    /\ call.op = "write"
    /\ call.destination_address = U32(0, 0)
    /\ pc = "idle"
    /\ result = "Ok"
    /\ Count("store") >= 1

----------------------------------------------------------------------------
(* C15 *)

\* The range contains_bootprotected builds from STATUS.BOOTPROT
BootRange == Range(Bank_Active_address, Add32(Bank_Active_address, bp_space))

\* On the pair a, b: the same answer in both orders, and false when either
\* range has start = end
SymmetricAndEmptyAware(a, b) ==
    /\ range_overlap(a, b) = range_overlap(b, a)
    /\ (a.start = a.end \/ b.start = b.end) => ~range_overlap(a, b)

\* The protected ranges of all values of STATUS.BOOTPROT considered
BootRanges == {Range(U32(0, 0), FromNat(8192 * (15 - b))) : b \in BootprotValues}

OverlapOnProbes ==
    \A a \in ProbeRanges \cup BootRanges, b \in ProbeRanges \cup BootRanges :
        SymmetricAndEmptyAware(a, b)

\* C15: range_overlap is symmetric and is false as soon as one of its
\* arguments is empty (start = end); so an empty request is never refused
\* with Protected, and with BOOTPROT = 15 (empty protected range) none is.
C15_Overlap ==
    /\ OverlapOnProbes
    /\ IsRequest =>
         /\ SymmetricAndEmptyAware(RequestRange, BootRange)
         /\ SymmetricAndEmptyAware(BootRange, RequestRange)
         /\ (RequestRange.start = RequestRange.end \/ BootRange.start = BootRange.end)
              => result # "Protected"

\* A write of zero words at address 0, inside the protected range, was let
\* through
C15_Witness ==
    /\ call.op = "write"
    /\ call.destination_address = U32(0, 0)
    /\ call.words = U32(0, 0)
    /\ ~bpdis
    /\ bootprot = 14
    /\ pc = "idle"
    /\ result = "Ok"

----------------------------------------------------------------------------
(* C16 *)

\* What holds of the calls made so far
SizeCached ==
    /\ size_reads <= 1
    /\ Cardinality(size_returned) <= 1
    /\ size_last.fn \in {"flash", "bank"} =>
         /\ FLASHSIZE # 0
         /\ size_reads = 1
         /\ size_returned = {FLASHSIZE}
         /\ size_last.fn = "flash" => size_last.v = FLASHSIZE
         /\ size_last.fn = "bank" => size_last.v = FLASHSIZE \div 2

\* What holds of each call: the first one reads PARAM and caches pages * 512,
\* a later one leaves the cache and PARAM alone
SizeCall ==
    size_calls' = size_calls + 1 =>
        IF FLASHSIZE = 0
        THEN /\ size_reads' = size_reads + 1
             /\ size_last'.fn # "panic" => FLASHSIZE' = param_nvmp * 512
        ELSE /\ size_reads' = size_reads
             /\ FLASHSIZE' = FLASHSIZE

\* C16: retrieve_flash_size returns the same value on every call: the first
\* call reads PARAM, computes pages * 512 and caches it, later calls return
\* the cached value without reading PARAM, also when PARAM reads differently
\* by then; retrieve_bank_size returns half of it on every call.
C16_FlashSize == []SizeCached /\ [][SizeCall]_vars

\* A later call returned the cached size although PARAM no longer gives it
C16_Witness ==
    /\ size_calls >= 2
    /\ size_last.fn = "flash"
    /\ size_last.v = FLASHSIZE
    /\ param_nvmp * 512 # FLASHSIZE
    /\ size_reads = 1

----------------------------------------------------------------------------
(* C17 *)

\* The value v holds, least significant byte first, the first n bytes of
\* region r and zero above them
HoldsBytes(v, r, n) ==
    \A i \in 0..(Len(v) - 1) : v[i + 1] = IF i < n THEN nvm_bytes[r][i] ELSE 0

\* As claimed: user_page returns the 16 bytes of the user page,
\* calibration_area the 8 bytes of its area, temperatures_calibration_area
\* the 16 bytes of its area, byte i in bits 8i..8i+7.
C17_Original ==
    /\ region_last.fn = "user_page" =>
         Len(region_last.v) = 16 /\ HoldsBytes(region_last.v, "user", 16)
    /\ region_last.fn = "calibration_area" =>
         Len(region_last.v) = 8 /\ HoldsBytes(region_last.v, "calibration", 8)
    /\ region_last.fn = "temperatures_calibration_area" =>
         Len(region_last.v) = 16 /\ HoldsBytes(region_last.v, "temperatures", 16)

\* C17: the readers accumulate bytes in little-endian order, byte i into
\* bits 8i..8i+7: user_page the 16 bytes of the user page, calibration_area
\* the first 6 bytes of its area into a 64-bit value, and
\* temperatures_calibration_area the first 11 bytes of its area into a
\* 128-bit value; the bits above the bytes read are zero.
C17_Amended ==
    /\ region_last.fn = "user_page" =>
         Len(region_last.v) = 16 /\ HoldsBytes(region_last.v, "user", 16)
    /\ region_last.fn = "calibration_area" =>
         Len(region_last.v) = 8 /\ HoldsBytes(region_last.v, "calibration", 6)
    /\ region_last.fn = "temperatures_calibration_area" =>
         Len(region_last.v) = 16 /\ HoldsBytes(region_last.v, "temperatures", 11)

\* calibration_area returned zero in its byte 6 although the area holds
\* another value there
C17_Witness ==
    /\ region_last.fn = "calibration_area"
    /\ nvm_bytes["calibration"][6] # 0
    /\ region_last.v[7] = 0
    /\ region_last.v[6] = nvm_bytes["calibration"][5]
    /\ region_last.v[1] # region_last.v[2]

----------------------------------------------------------------------------
(* C18 *)

\* A write past its checks, running or returned
InWrite == call.op = "write" /\ (pc # "idle" \/ ReturnedPastGuards)

ErrorOf(f) ==
    IF f = "ADDRE" THEN "AddressError"
    ELSE IF f = "LOCKE" THEN "LockError"
    ELSE "ProgrammingError"

\* The trace so far: READY, PBC, DONE read and cleared come first and the
\* stores after them; PBC is issued once; a WP comes right after a read of
\* READY that follows a store; after a command nothing happens before DONE
\* was read and cleared
WriteOrder ==
    \A i \in 1..Len(trace) :
        /\ i = 1 => trace[i] = EvReady
        /\ i = 2 => trace[i] = EvCmd("PBC")
        /\ i = 3 => trace[i] = EvDone
        /\ i = 4 => trace[i] = EvClear("DONE")
        /\ trace[i].k = "store" => i > 4
        /\ trace[i].k = "cmd" => IF i = 2 THEN trace[i].c = "PBC" ELSE trace[i].c = "WP"
        /\ IsWP(trace[i]) => /\ i > 5
                             /\ trace[i - 1] = EvReady
                             /\ trace[i - 2].k = "store"
        /\ (trace[i].k = "cmd" /\ i + 1 <= Len(trace)) => trace[i + 1] = EvDone
        /\ (trace[i].k = "cmd" /\ i + 2 <= Len(trace)) => trace[i + 2] = EvClear("DONE")

\* The decoder has not run while the write runs; at the return it has run
\* once, last of all, every word of the zipped ranges was stored and no
\* store is left without a WP after it
WriteToTheEnd ==
    /\ pc # "idle" => Count("intflag_read") = 0
    /\ pc = "idle" =>
         LET n == Len(trace)
             m == Len(DecoderEvents)
             sc == StoresAndCommands
         IN  /\ Count("intflag_read") = 1
             /\ n >= m + 5
             /\ SubSeq(trace, n - m + 1, n) = DecoderEvents
             /\ ~(HasNext(write_addresses) /\ HasNext(read_addresses))
             /\ Len(sc) >= 1
             /\ sc[Len(sc)].k = "cmd"
             /\ result = ErrorState(read_intflag)
             /\ page_intflag \cap ErrorFlags \subseteq read_intflag

\* As claimed: the shape above, and the error of a flag left by the WP of
\* an earlier page is what the write returns.
C18_Original ==
    InWrite =>
        /\ WriteOrder
        /\ WriteToTheEnd
        /\ pc = "idle" => \A f \in ErrorFlags :
                            page_intflag \cap ErrorFlags = {f} => result = ErrorOf(f)

\* C18: a write past its checks observes READY, issues PBC and awaits it
\* before the first store; issues every WP right after observing READY
\* following the latest store; runs the decoder once, after the last store
\* and the last WP; and does not stop on an error flag: a flag left by the WP
\* of an earlier page stays set while the remaining words are stored and
\* programmed, and the write returns the error of highest priority (ADDRE,
\* then LOCKE, then PROGE) among the flags set by then, which is that flag's
\* error unless a later command raised one of higher priority.
C18_Amended ==
    InWrite =>
        /\ WriteOrder
        /\ WriteToTheEnd
        /\ pc = "idle" => \A f \in ErrorFlags :
                            page_intflag \cap ErrorFlags = {f} =>
                                /\ result # "Ok"
                                /\ f \in read_intflag
                                /\ \/ result = ErrorOf(f)
                                   \/ /\ result = "AddressError"
                                      /\ "ADDRE" \in read_intflag \ page_intflag
                                   \/ /\ result = "LockError"
                                      /\ f = "PROGE"
                                      /\ "LOCKE" \in read_intflag \ page_intflag

\* The WP at a page end left LOCKE set; the rest was stored and programmed,
\* the last WP raised ADDRE, and the write returned AddressError
C18_Witness ==
    /\ call.op = "write"
    /\ pc = "idle"
    /\ page_intflag \cap ErrorFlags = {"LOCKE"}
    /\ read_intflag = {"LOCKE", "ADDRE"}
    /\ result = "AddressError"
    /\ CmdCount("WP") = 2
    /\ Count("store") = 2

----------------------------------------------------------------------------
(* C19 *)

\* The accesses of the i-th unit of an erase: ADDR, READY, the erase command,
\* DONE read and cleared, the decoder
UnitEvents(i) ==
    LET unit == Add32(RoundedAddress, Mul32(FromNat(i - 1), UnitSize))
    IN  <<EvAddr(<<unit[1] % 256, unit[2]>>), EvReady,
          EvCmd(IF call.granularity = "Block" THEN "EB" ELSE "EP"),
          EvDone, EvClear("DONE")>> \o DecoderEvents

\* The trace is the accesses of the units 1..n, one unit after the other
UnitByUnit(n) ==
    LET per == Len(UnitEvents(1))
    IN  /\ Len(trace) = per * n
        /\ \A i \in 1..n : SubSeq(trace, (i - 1) * per + 1, i * per) = UnitEvents(i)

\* C19: an erase that passes the checks and meets no hardware error issues
\* exactly `length` erase commands, one per unit at flash_address + i*size in
\* ascending order, each unit as ADDR write, READY, command, DONE, decoder;
\* it returns Ok after all of them, and with length 0 issues none; for every
\* 32-bit address and length.
C19_Claim ==
    (call.op = "erase" /\ pc = "idle" /\ result = "Ok") =>
        /\ FromNat(Count("cmd")) = call.length
        /\ UnitByUnit(Count("cmd"))

----------------------------------------------------------------------------
(* C20 *)

\* The request range is not empty and lies inside [0, bp_space)
InsideProtectedRange ==
    /\ Lt32(RequestRange.start, RequestRange.end)
    /\ Le32(RequestRange.end, ProtectedRange.end)

\* The accesses of a boot_protection call that changes the state
ToggleEvents ==
    <<EvReady, EvCmd(IF call.protect THEN "CBPDIS" ELSE "SBPDIS"), EvDone, EvClear("DONE")>>
        \o DecoderEvents

\* C20: the check of write and erase follows STATUS.BPDIS as it stands at
\* the call: with BPDIS set (after a successful boot_protection(false)) a
\* request inside [0, bp_space) is not refused with Protected and goes on to
\* its commands; with BPDIS clear (at reset, and again after a successful
\* boot_protection(true)) it is refused with Protected before any hardware
\* access. A boot_protection call that changes the state observes READY,
\* issues one command, SBPDIS for false and CBPDIS for true, awaits it and
\* runs the decoder once; when it returns Ok the status is the one asked.
C20_FollowsToggles ==
    /\ (IsRequest /\ InsideProtectedRange /\ ~(call.op = "write" /\ Misaligned)) =>
         IF bpdis
         THEN /\ result # "Protected"
              /\ pc = "idle" => ReturnedPastGuards /\ Count("cmd") >= 1
         ELSE /\ pc = "idle"
              /\ result = "Protected"
              /\ NoHardwareAccess
    /\ (call.op = "boot_protection" /\ result # "NoChangeBootProtection") =>
         /\ Len(trace) <= Len(ToggleEvents)
         /\ trace = SubSeq(ToggleEvents, 1, Len(trace))
         /\ pc = "idle" => trace = ToggleEvents
         /\ result = "Ok" => is_boot_protected = call.protect

\* Protection was switched off by boot_protection(false), and a block inside
\* the protected range was then erased
C20_Witness ==
    /\ call = [op |-> "erase", address |-> U32(0, 0), length |-> U32(0, 1),
               granularity |-> "Block"]
    /\ bootprot = 14
    /\ bpdis
    /\ pc = "idle"
    /\ result = "Ok"
    /\ CmdCount("EB") = 1

----------------------------------------------------------------------------
(* C21 *)

ReachableResults ==
    {"Ok", "Alignment", "Protected", "NoChangeBootProtection", "AddressError",
     "LockError", "ProgrammingError"}

\* C21: whatever flags the hardware raises, write, erase and boot_protection
\* return Ok, Alignment, Protected, NoChangeBootProtection, AddressError,
\* LockError or ProgrammingError and nothing else: never NvmError, an ECC
\* error, Dsu or SmartEepromArea; the check of the SmartEEPROM range reports
\* no overlap for any range.
C21_ReachableErrors ==
    /\ result \in ReachableResults \cup {"none"}
    /\ pc = "idle" /\ call.op # "none" => result \in ReachableResults
    /\ \A r \in ProbeRanges : ~contains_smart_eeprom(r)
    /\ IsRequest => ~contains_smart_eeprom(RequestRange)

\* An erase returned Ok with NVME, ECCSE and ECCDE all set in INTFLAG
C21_Witness ==
    /\ call.op = "erase"
    /\ pc = "idle"
    /\ result = "Ok"
    /\ Count("cmd") >= 1
    /\ OtherFlags \subseteq read_intflag
    /\ OtherFlags \subseteq intflag

----------------------------------------------------------------------------
(* C22 *)

\* The flags the driver waits for or decodes
DriverFlags == {"DONE"} \cup ErrorFlags

\* C22: at every return of write, erase and boot_protection, and so at the
\* entry of the next call, DONE, ADDRE, LOCKE and PROGE are clear and no
\* command is in execution; a call that issued a command ends with a decoder
\* run after its last command; a peripheral error is returned only by a call
\* that issued a command itself, from flags raised since its entry.
C22_FlagsClear ==
    /\ pc = "idle" =>
         /\ intflag \cap DriverFlags = {}
         /\ pending = "none"
    /\ (pc = "idle" /\ Count("cmd") >= 1) =>
         LET n == Len(trace)
             m == Len(DecoderEvents)
         IN  /\ n >= m + 1
             /\ SubSeq(trace, n - m + 1, n) = DecoderEvents
             /\ \A i \in (n - m + 1)..n : trace[i].k \notin {"cmd", "store"}
             /\ result = ErrorState(read_intflag)
    /\ result \in {"AddressError", "LockError", "ProgrammingError"} =>
         /\ pc = "idle"
         /\ Count("cmd") >= 1
         /\ Count("intflag_read") >= 1

\* A write over a page end returned the error of a flag raised after its
\* first WP, and left the flags clear
C22_Witness ==
    /\ call.op = "write"
    /\ pc = "idle"
    /\ result = "ProgrammingError"
    /\ read_intflag \cap DriverFlags = {"PROGE"}
    /\ page_intflag \cap ErrorFlags = {}
    /\ CmdCount("WP") = 2
    /\ intflag \cap DriverFlags = {}

====
